---------------------------- MODULE Spec2Model ----------------------------
(***************************************************************************)
(* Model of the BigDecimal class of joaonmatos/decimal.                    *)
(*                                                                         *)
(* A BigDecimal is a pair (significant, exponent) whose value is           *)
(* significant * 10^exponent.  The significant is a JavaScript bigint, an  *)
(* arbitrary-precision integer.  TLC's integers are 32 bits wide and the   *)
(* code scales significants by up to 10^10, so a bigint is modelled as a   *)
(* sign and a sequence of decimal digits, and the bigint operators the     *)
(* code uses (+, -, *, /, %, **, comparison, parsing, rendering) are       *)
(* defined on that representation.  The exponent is a JavaScript number    *)
(* and stays a TLC integer.                                                *)
(*                                                                         *)
(* Each public method is an action: it draws its receiver and arguments    *)
(* from bounded sets, and records the call and what it returned or threw.  *)
(***************************************************************************)
EXTENDS Integers, Sequences, FiniteSets

(***************************************************************************)
(* Bounds of the model.                                                    *)
(***************************************************************************)
MaxSig == 4
MaxExp == 2
MaxStrLen == 5
MaxPrecision == 2
MaxPow == 3
MaxHeldDigits == 3
MaxHeldExp == 2
MaxKept == 2

(***************************************************************************)
(* Program constants.                                                      *)
(***************************************************************************)
SQRT_ROUNDS == 10
PRECISION == 10
DivideSteps == 10

(***************************************************************************)
(* bigint: magnitudes.  A magnitude is a sequence of digits 0..9, most     *)
(* significant first, without leading zeros; zero is the empty sequence.   *)
(***************************************************************************)
Min(i, j) == IF i <= j THEN i ELSE j
Max(i, j) == IF i >= j THEN i ELSE j

RECURSIVE Strip(_)
Strip(d) == IF d = <<>> \/ d[1] # 0 THEN d ELSE Strip(Tail(d))

\* the digit of weight 10^i
DigitAt(d, i) == IF i < Len(d) THEN d[Len(d) - i] ELSE 0

RECURSIVE LexCmp(_, _, _)
LexCmp(x, y, i) ==
  IF i > Len(x) THEN 0
  ELSE IF x[i] < y[i] THEN -1
  ELSE IF x[i] > y[i] THEN 1
  ELSE LexCmp(x, y, i + 1)

MCmp(x, y) ==
  IF Len(x) < Len(y) THEN -1
  ELSE IF Len(x) > Len(y) THEN 1
  ELSE LexCmp(x, y, 1)

RECURSIVE MAddRec(_, _, _, _)
MAddRec(x, y, i, c) ==
  IF i >= Max(Len(x), Len(y))
  THEN (IF c = 0 THEN <<>> ELSE <<c>>)
  ELSE LET s == DigitAt(x, i) + DigitAt(y, i) + c
       IN  Append(MAddRec(x, y, i + 1, s \div 10), s % 10)

MAdd(x, y) ==
  IF x = <<>> THEN y ELSE IF y = <<>> THEN x ELSE MAddRec(x, y, 0, 0)

RECURSIVE MSubRec(_, _, _, _)
MSubRec(x, y, i, b) ==
  IF i >= Len(x) THEN <<>>
  ELSE LET s == DigitAt(x, i) - DigitAt(y, i) - b
       IN  Append(MSubRec(x, y, i + 1, IF s < 0 THEN 1 ELSE 0),
                  IF s < 0 THEN s + 10 ELSE s)

\* x - y for x >= y
MSub(x, y) == Strip(MSubRec(x, y, 0, 0))

\* the native number of the first j digits of a magnitude
RECURSIVE NatOf(_, _)
NatOf(d, j) == IF j = 0 THEN 0 ELSE 10 * NatOf(d, j - 1) + d[j]

\* a magnitude below 10^8: ten times it still fits a 32-bit integer
IsSmall(d) == Len(d) <= 8

\* x * n for a native n < 10^8: digit by digit with a native carry
RECURSIVE MMulSmallRec(_, _, _, _)
MMulSmallRec(x, n, i, c) ==
  IF i >= Len(x)
  THEN (IF c = 0 THEN <<>> ELSE MMulSmallRec(x, n, i + 1, c \div 10) \o <<c % 10>>)
  ELSE LET s == DigitAt(x, i) * n + c
       IN  Append(MMulSmallRec(x, n, i + 1, s \div 10), s % 10)

MMulSmall(x, n) == IF n = 0 \/ x = <<>> THEN <<>> ELSE MMulSmallRec(x, n, 0, 0)

Zeros(n) == [i \in 1..n |-> 0]

\* x * 10^n
MShift(x, n) == IF x = <<>> THEN <<>> ELSE x \o Zeros(n)

\* schoolbook multiplication, one digit of y at a time
RECURSIVE MMulRec(_, _, _)
MMulRec(x, y, j) ==
  IF j = 0 THEN <<>>
  ELSE MAdd(MShift(MMulRec(x, y, j - 1), 1), MMulSmall(x, y[j]))

MMul(x, y) ==
  IF IsSmall(y) THEN MMulSmall(x, NatOf(y, Len(y)))
  ELSE IF IsSmall(x) THEN MMulSmall(y, NatOf(x, Len(x)))
  ELSE MMulRec(x, y, Len(y))

\* how often y # 0 fits into r (at most 9 times in a long division step),
\* and what is left
RECURSIVE MFit(_, _)
MFit(r, y) ==
  IF MCmp(r, y) < 0 THEN [k |-> 0, r |-> r]
  ELSE LET f == MFit(MSub(r, y), y) IN [k |-> f.k + 1, r |-> f.r]

\* long division of the first j digits of x by y # 0: quotient and remainder
RECURSIVE MDivRec(_, _, _)
MDivRec(x, y, j) ==
  IF j = 0 THEN [q |-> <<>>, r |-> <<>>]
  ELSE LET p == MDivRec(x, y, j - 1)
           f == MFit(Strip(Append(p.r, x[j])), y)
       IN  [q |-> Strip(Append(p.q, f.k)), r |-> f.r]

\* long division by a native n with 0 < n < 10^8: the running
\* remainder is native
RECURSIVE MDivSmallRec(_, _, _)
MDivSmallRec(x, n, j) ==
  IF j = 0 THEN [q |-> <<>>, r |-> 0]
  ELSE LET p == MDivSmallRec(x, n, j - 1)
           t == 10 * p.r + x[j]
       IN  [q |-> IF p.q = <<>> /\ t < n THEN <<>> ELSE Append(p.q, t \div n),
            r |-> t % n]

RECURSIVE NatDigits(_)
NatDigits(n) == IF n = 0 THEN <<>> ELSE Append(NatDigits(n \div 10), n % 10)

MDivMod(x, y) ==
  IF IsSmall(y)
  THEN LET p == MDivSmallRec(x, NatOf(y, Len(y)), Len(x))
       IN  [q |-> p.q, r |-> NatDigits(p.r)]
  ELSE MDivRec(x, y, Len(x))

(***************************************************************************)
(* bigint: signed values.  Zero has neg = FALSE, as a bigint has no -0.    *)
(***************************************************************************)
Big(neg, mag) == [neg |-> neg /\ mag # <<>>, mag |-> mag]

\* a bigint literal such as 5n or -1n
BigOf(n) == IF n < 0 THEN Big(TRUE, NatDigits(-n)) ELSE Big(FALSE, NatDigits(n))

BZero == BigOf(0)
BOne == BigOf(1)

BIsZero(x) == x.mag = <<>>
BIsNeg(x) == x.neg

BNeg(x) == Big(~x.neg, x.mag)

BAdd(x, y) ==
  IF x.neg = y.neg THEN Big(x.neg, MAdd(x.mag, y.mag))
  ELSE IF MCmp(x.mag, y.mag) >= 0 THEN Big(x.neg, MSub(x.mag, y.mag))
  ELSE Big(y.neg, MSub(y.mag, x.mag))

BSub(x, y) == BAdd(x, BNeg(y))

BMul(x, y) == Big(x.neg # y.neg, MMul(x.mag, y.mag))

\* bigint division truncates toward zero
BDiv(x, y) == Big(x.neg # y.neg, MDivMod(x.mag, y.mag).q)

\* the bigint remainder has the sign of the dividend
BMod(x, y) == Big(x.neg, MDivMod(x.mag, y.mag).r)

\* 10n ** BigInt(n)
BPow10(n) == Big(FALSE, <<1>> \o Zeros(n))

BCmp(x, y) ==
  IF x.neg /\ ~y.neg THEN -1
  ELSE IF ~x.neg /\ y.neg THEN 1
  ELSE IF x.neg THEN MCmp(y.mag, x.mag)
  ELSE MCmp(x.mag, y.mag)

BLess(x, y) == BCmp(x, y) < 0

BTen == BigOf(10)

\* this.significant ** BigInt(n), by repeated multiplication
RECURSIVE BPow(_, _)
BPow(x, n) == IF n = 0 THEN BOne ELSE BMul(BPow(x, n - 1), x)

(***************************************************************************)
(* Strings are sequences of one-character strings.                         *)
(***************************************************************************)
DigitChars == <<"0", "1", "2", "3", "4", "5", "6", "7", "8", "9">>

IsDigitChar(c) == \E i \in 1..10 : DigitChars[i] = c

DigitOfChar(c) == (CHOOSE i \in 1..10 : DigitChars[i] = c) - 1

\* bigint.toString()
BigToString(x) ==
  IF BIsZero(x) THEN <<"0">>
  ELSE (IF x.neg THEN <<"-">> ELSE <<>>)
       \o [i \in 1..Len(x.mag) |-> DigitChars[x.mag[i] + 1]]

\* string.replace("-", "") of a rendered bigint
RemoveMinus(str) == IF str[1] = "-" THEN Tail(str) ELSE str

\* BigInt(string) of a string matching -?[0-9]+
BigOfString(str) ==
  LET neg    == str[1] = "-"
      digits == IF neg THEN Tail(str) ELSE str
  IN  Big(neg, Strip([i \in 1..Len(digits) |-> DigitOfChar(digits[i])]))

\* Number.parseInt(string) of a string matching -?[0-9]+
ParseInt(str) ==
  LET neg    == str[1] = "-"
      digits == IF neg THEN Tail(str) ELSE str
      n      == NatOf([i \in 1..Len(digits) |-> DigitOfChar(digits[i])], Len(digits))
  IN  IF neg THEN -n ELSE n

\* String.prototype.substring(start, end): indices are clamped to
\* [0, length] and swapped when start > end
Substring(str, start, end) ==
  LET a  == Max(0, Min(start, Len(str)))
      b  == Max(0, Min(end, Len(str)))
      lo == Min(a, b)
      hi == Max(a, b)
  IN  SubSeq(str, lo + 1, hi)

\* String.prototype.padEnd(targetLength, "0")
PadEnd(str, targetLength) ==
  IF targetLength <= Len(str) THEN str
  ELSE str \o [i \in 1..(targetLength - Len(str)) |-> "0"]

(***************************************************************************)
(* BigDecimal values and constants.                                        *)
(***************************************************************************)
BigDecimal(significant, exponent) ==
  [significant |-> significant, exponent |-> exponent]

MINUS_ONE == BigDecimal(BigOf(-1), 0)
ZERO == BigDecimal(BigOf(0), 0)
ZERO_DOT_FIVE == BigDecimal(BigOf(5), -1)
ONE == BigDecimal(BigOf(1), 0)
TWO == BigDecimal(BigOf(2), 0)
TEN == BigDecimal(BigOf(1), 1)

\* what a call does: it returns a value or throws an Error with a message
Return(v) == [kind |-> "return", val |-> v]
Throw(m) == [kind |-> "throw", msg |-> m]

(***************************************************************************)
(* normalized(): trim the trailing zeros of the significant.               *)
(***************************************************************************)
RECURSIVE normalizedLoop(_, _)
normalizedLoop(significant, exponent) ==
  IF BIsZero(BMod(significant, BTen))
  THEN normalizedLoop(BDiv(significant, BTen), exponent + 1)
  ELSE BigDecimal(significant, exponent)

\* normalized that trims one trailing zero at most
normalizedOnce(this) ==
  IF BIsZero(this.significant) THEN BigDecimal(BZero, 0)
  ELSE IF BIsZero(BMod(this.significant, BTen))
  THEN BigDecimal(BDiv(this.significant, BTen), this.exponent + 1)
  ELSE BigDecimal(this.significant, this.exponent)

normalized(this) ==
  IF BIsZero(this.significant) THEN BigDecimal(BZero, 0)
  ELSE normalizedLoop(this.significant, this.exponent)

signum(this) ==
  IF BIsNeg(this.significant) THEN -1
  ELSE IF BIsZero(this.significant) THEN 0
  ELSE 1

negate(this) == BigDecimal(BNeg(this.significant), this.exponent)

abs(this) == IF BIsNeg(this.significant) THEN negate(this) ELSE this

\* add without the alignment of the larger exponent's significant
RECURSIVE addUnaligned(_, _)
addUnaligned(this, other) ==
  LET diff == this.exponent - other.exponent
  IN  IF diff < 0 THEN addUnaligned(other, this)
      ELSE LET significant == BAdd(other.significant, this.significant)
               exponent    == Min(this.exponent, other.exponent)
           IN  normalized(BigDecimal(significant, exponent))

\* add that does not delegate: a receiver with the smaller exponent adds
\* the significants as they are
addUndelegated(this, other) ==
  LET diff == this.exponent - other.exponent
  IN  IF diff < 0
      THEN normalized(BigDecimal(BAdd(other.significant, this.significant),
                                 this.exponent))
      ELSE LET significant ==
                 BAdd(other.significant, BMul(this.significant, BPow10(diff)))
               exponent == Min(this.exponent, other.exponent)
           IN  normalized(BigDecimal(significant, exponent))

RECURSIVE add(_, _)
add(this, other) ==
  LET diff == this.exponent - other.exponent
  IN  IF diff < 0 THEN add(other, this)
      ELSE LET significant ==
                 BAdd(other.significant, BMul(this.significant, BPow10(diff)))
               exponent == Min(this.exponent, other.exponent)
           IN  normalized(BigDecimal(significant, exponent))

\* how many times this.add(other) hands the call over to the other operand
RECURSIVE addDelegations(_, _)
addDelegations(this, other) ==
  LET diff == this.exponent - other.exponent
  IN  IF diff < 0 THEN 1 + addDelegations(other, this) ELSE 0

subtract(this, other) == add(this, negate(other))

multiply(this, other) ==
  LET significant == BMul(this.significant, other.significant)
      exponent    == this.exponent + other.exponent
  IN  normalized(BigDecimal(significant, exponent))

scaleByPowerOfTen(this, exponent) ==
  normalized(BigDecimal(this.significant, this.exponent + exponent))

equals(this, other) ==
  this.significant = other.significant /\ this.exponent = other.exponent

\* equalValue that compares the components as they are
equalValueStrict(this, other) == equals(this, other)

equalValue(this, other) == equals(normalized(this), normalized(other))

(***************************************************************************)
(* pow(): the significant to the power, the exponent times the power.      *)
(***************************************************************************)
\* pow that leaves the exponent as it is
powUnscaled(this, exponent) ==
  IF exponent < 0 THEN Throw("Negative exponents are not supported")
  ELSE Return(normalized(
         BigDecimal(BPow(this.significant, exponent), this.exponent)))

pow(this, exponent) ==
  IF exponent < 0 THEN Throw("Negative exponents are not supported")
  ELSE LET significant == BPow(this.significant, exponent)
           scale       == this.exponent * exponent
       IN  Return(normalized(BigDecimal(significant, scale)))

(***************************************************************************)
(* compareTo(), min() and max().                                           *)
(***************************************************************************)
\* compareTo that compares the significants without aligning them
RECURSIVE compareToUnaligned(_, _)
compareToUnaligned(this, other) ==
  LET subject == normalized(this)
      object  == normalized(other)
      diff    == subject.exponent - object.exponent
  IN  IF diff < 0 THEN -compareToUnaligned(object, subject)
      ELSE IF BLess(subject.significant, object.significant) THEN -1
      ELSE IF subject.significant = object.significant THEN 0
      ELSE 1

\* the receiver with the smaller exponent delegates to the other operand
\* and negates what comes back
RECURSIVE compareTo(_, _)
compareTo(this, other) ==
  LET subject == normalized(this)
      object  == normalized(other)
      diff    == subject.exponent - object.exponent
  IN  IF diff < 0 THEN -compareTo(object, subject)
      ELSE LET aligned == BigDecimal(BMul(subject.significant, BPow10(diff)),
                                     subject.exponent - diff)
           IN  IF BLess(aligned.significant, object.significant) THEN -1
               ELSE IF aligned.significant = object.significant THEN 0
               ELSE 1

min(this, other) == IF compareTo(this, other) <= 0 THEN this ELSE other

max(this, other) == IF compareTo(this, other) >= 0 THEN this ELSE other

(***************************************************************************)
(* divide(): scale the dividend by ten at most DivideSteps times, until    *)
(* the significants divide evenly, then divide them.                       *)
(***************************************************************************)
\* the scaling loop stopping one step early (i < 9)
RECURSIVE divideLoopShort(_, _, _, _)
divideLoopShort(thisSignificant, thisExponent, other, i) ==
  IF i < DivideSteps - 1
     /\ ~BIsZero(BMod(thisSignificant, other.significant))
  THEN divideLoopShort(BMul(thisSignificant, BTen), thisExponent - 1,
                       other, i + 1)
  ELSE [significant |-> thisSignificant, exponent |-> thisExponent, i |-> i]

RECURSIVE divideLoop(_, _, _, _)
divideLoop(thisSignificant, thisExponent, other, i) ==
  IF i < DivideSteps /\ ~BIsZero(BMod(thisSignificant, other.significant))
  THEN divideLoop(BMul(thisSignificant, BTen), thisExponent - 1, other, i + 1)
  ELSE [significant |-> thisSignificant, exponent |-> thisExponent, i |-> i]

\* divide testing the dividend for zero before the divisor
divideZeroFirst(this, other) ==
  IF BIsZero(this.significant) THEN Return(BigDecimal(BZero, 0))
  ELSE IF BIsZero(other.significant) THEN Throw("Division by zero")
  ELSE LET scaled      == divideLoop(this.significant, this.exponent, other, 0)
           significant == BDiv(scaled.significant, other.significant)
           exponent    == scaled.exponent - other.exponent
       IN  Return(normalized(BigDecimal(significant, exponent)))

\* divide that leaves the divisor's exponent out of the result's
divideExponentKept(this, other) ==
  IF BIsZero(other.significant)
  THEN (IF BIsZero(this.significant)
        THEN Throw("0/0 is undefined")
        ELSE Throw("Division by zero"))
  ELSE IF BIsZero(this.significant) THEN Return(BigDecimal(BZero, 0))
  ELSE LET scaled      == divideLoop(this.significant, this.exponent, other, 0)
           significant == BDiv(scaled.significant, other.significant)
       IN  Return(normalized(BigDecimal(significant, scaled.exponent)))

\* divide that rounds an inexact quotient toward negative infinity
divideFloored(this, other) ==
  IF BIsZero(other.significant)
  THEN (IF BIsZero(this.significant)
        THEN Throw("0/0 is undefined")
        ELSE Throw("Division by zero"))
  ELSE IF BIsZero(this.significant) THEN Return(BigDecimal(BZero, 0))
  ELSE LET scaled      == divideLoop(this.significant, this.exponent, other, 0)
           truncated   == BDiv(scaled.significant, other.significant)
           inexact     == ~BIsZero(BMod(scaled.significant, other.significant))
           significant == IF inexact /\ BIsNeg(scaled.significant)
                                        # BIsNeg(other.significant)
                          THEN BSub(truncated, BOne)
                          ELSE truncated
           exponent    == scaled.exponent - other.exponent
       IN  Return(normalized(BigDecimal(significant, exponent)))

divide(this, other) ==
  IF BIsZero(other.significant)
  THEN (IF BIsZero(this.significant)
        THEN Throw("0/0 is undefined")
        ELSE Throw("Division by zero"))
  ELSE IF BIsZero(this.significant) THEN Return(BigDecimal(BZero, 0))
  ELSE LET scaled      == divideLoop(this.significant, this.exponent, other, 0)
           significant == BDiv(scaled.significant, other.significant)
           exponent    == scaled.exponent - other.exponent
       IN  Return(normalized(BigDecimal(significant, exponent)))


(***************************************************************************)
(* sqrt(): ten rounds of Newton's method from the seed                     *)
(* valueOf(Math.sqrt(this.number())).  The seed goes through double        *)
(* precision; it is modelled where every step of that is exact: the        *)
(* receiver is zero, or an integer below 2^31 that is a perfect square.    *)
(***************************************************************************)
\* number(): Number(significant) * 10 ** exponent, for zero and for
\* integers below 2^31
number(this) ==
  IF BIsZero(this.significant) THEN 0
  ELSE LET units == BMul(this.significant, BPow10(this.exponent))
       IN  IF units.neg THEN -NatOf(units.mag, Len(units.mag))
           ELSE NatOf(units.mag, Len(units.mag))

\* Math.sqrt of a perfect square: the root, exactly
mathSqrt(x) == CHOOSE r \in 0..x : r * r = x

\* valueOf(number) of an integer: the loop that scales a fraction up to an
\* integer is not entered
valueOfNumber(value) == normalized(BigDecimal(BigOf(value), 0))

\* one round: guess - (guess * guess - this) / (guess + guess)
sqrtRound(guess, this) ==
  LET quotient == divide(subtract(multiply(guess, guess), this),
                         add(guess, guess))
  IN  IF quotient.kind = "throw" THEN quotient
      ELSE Return(subtract(guess, quotient.val))

RECURSIVE sqrtLoop(_, _, _)
sqrtLoop(guess, this, i) ==
  IF i >= SQRT_ROUNDS THEN Return(normalized(guess))
  ELSE LET next == sqrtRound(guess, this)
       IN  IF next.kind = "throw" THEN next
           ELSE sqrtLoop(next.val, this, i + 1)

sqrt(this) ==
  IF BIsNeg(this.significant)
  THEN Throw("Negative numbers are not supported")
  ELSE sqrtLoop(valueOfNumber(mathSqrt(number(this))), this, 0)

(***************************************************************************)
(* round(): the seven rounding modes.                                      *)
(***************************************************************************)
RoundingModes ==
  {"ceiling", "floor", "up", "down", "halfUp", "halfDown", "halfEven"}

Default == "halfEven"

\* the kept digits and the first dropped digit of a positive significant
roundBase(this, precision) ==
  BDiv(this.significant, BPow10(-this.exponent - precision))

roundRemainder(this, precision) ==
  LET modulo == BPow10(-this.exponent - precision)
  IN  BDiv(BMod(this.significant, modulo), BDiv(modulo, BTen))

\* roundCeiling that rounds a negative value away from zero as well
RECURSIVE roundCeilingAway(_, _)
roundCeilingAway(this, precision) ==
  IF signum(this) = -1
  THEN negate(roundCeilingAway(negate(this), precision))
  ELSE BigDecimal(BAdd(roundBase(this, precision), BOne), -precision)

RECURSIVE roundCeiling(_, _), roundFloor(_, _)
roundCeiling(this, precision) ==
  IF signum(this) = -1
  THEN negate(roundFloor(negate(this), precision))
  ELSE BigDecimal(BAdd(roundBase(this, precision), BOne), -precision)

\* roundFloor that truncates a negative value toward zero
RECURSIVE roundFloorToZero(_, _)
roundFloorToZero(this, precision) ==
  IF signum(this) = -1
  THEN negate(roundFloorToZero(negate(this), precision))
  ELSE BigDecimal(roundBase(this, precision), -precision)

roundFloor(this, precision) ==
  IF signum(this) = -1
  THEN negate(roundCeiling(negate(this), precision))
  ELSE BigDecimal(roundBase(this, precision), -precision)

\* how many times #roundCeiling and #roundFloor hand a value over to each
\* other before one of them computes
RECURSIVE ceilingReflections(_), floorReflections(_)
ceilingReflections(this) ==
  IF signum(this) = -1 THEN 1 + floorReflections(negate(this)) ELSE 0

floorReflections(this) ==
  IF signum(this) = -1 THEN 1 + ceilingReflections(negate(this)) ELSE 0

RECURSIVE roundUp(_, _)
roundUp(this, precision) ==
  IF signum(this) = -1
  THEN negate(roundUp(negate(this), precision))
  ELSE BigDecimal(BAdd(roundBase(this, precision), BOne), -precision)

\* roundDown that increments the kept digits
RECURSIVE roundDownAway(_, _)
roundDownAway(this, precision) ==
  IF signum(this) = -1
  THEN negate(roundDownAway(negate(this), precision))
  ELSE BigDecimal(BAdd(roundBase(this, precision), BOne), -precision)

RECURSIVE roundDown(_, _)
roundDown(this, precision) ==
  IF signum(this) = -1
  THEN negate(roundDown(negate(this), precision))
  ELSE BigDecimal(roundBase(this, precision), -precision)

\* roundHalfUp that leaves a first dropped digit of exactly 5 to the base
RECURSIVE roundHalfUpStrict(_, _)
roundHalfUpStrict(this, precision) ==
  IF signum(this) = -1
  THEN negate(roundHalfUpStrict(negate(this), precision))
  ELSE LET base      == roundBase(this, precision)
           remainder == roundRemainder(this, precision)
       IN  IF BCmp(remainder, BigOf(5)) <= 0
           THEN BigDecimal(base, -precision)
           ELSE BigDecimal(BAdd(base, BOne), -precision)

RECURSIVE roundHalfUp(_, _)
roundHalfUp(this, precision) ==
  IF signum(this) = -1
  THEN negate(roundHalfUp(negate(this), precision))
  ELSE LET base      == roundBase(this, precision)
           remainder == roundRemainder(this, precision)
       IN  IF BLess(remainder, BigOf(5))
           THEN BigDecimal(base, -precision)
           ELSE BigDecimal(BAdd(base, BOne), -precision)

RECURSIVE roundHalfDown(_, _)
roundHalfDown(this, precision) ==
  IF signum(this) = -1
  THEN negate(roundHalfDown(negate(this), precision))
  ELSE LET base      == roundBase(this, precision)
           remainder == roundRemainder(this, precision)
       IN  IF BCmp(remainder, BigOf(5)) <= 0
           THEN BigDecimal(base, -precision)
           ELSE BigDecimal(BAdd(base, BOne), -precision)

RECURSIVE roundHalfEven(_, _)
roundHalfEven(this, precision) ==
  IF signum(this) = -1
  THEN negate(roundHalfEven(negate(this), precision))
  ELSE LET base      == roundBase(this, precision)
           remainder == roundRemainder(this, precision)
       IN  IF BLess(remainder, BigOf(5))
           THEN BigDecimal(base, -precision)
           ELSE IF remainder = BigOf(5)
           THEN (IF BIsZero(BMod(base, BigOf(2)))
                 THEN BigDecimal(base, -precision)
                 ELSE BigDecimal(BAdd(base, BOne), -precision))
           ELSE BigDecimal(BAdd(base, BOne), -precision)

\* round({roundingMode, precision, normalized: true}) on a normalized value
roundNormalized(this, roundingMode, precision) ==
  IF signum(this) = 0 THEN ZERO
  ELSE IF -this.exponent - precision <= 0 THEN this
  ELSE IF roundingMode = "ceiling" THEN normalized(roundCeiling(this, precision))
  ELSE IF roundingMode = "floor" THEN normalized(roundFloor(this, precision))
  ELSE IF roundingMode = "up" THEN normalized(roundUp(this, precision))
  ELSE IF roundingMode = "down" THEN normalized(roundDown(this, precision))
  ELSE IF roundingMode = "halfUp" THEN normalized(roundHalfUp(this, precision))
  ELSE IF roundingMode = "halfDown" THEN normalized(roundHalfDown(this, precision))
  ELSE normalized(roundHalfEven(this, precision))

\* round that takes the receiver as it is, without normalizing it first
roundAsGiven(this, roundingMode, precision) ==
  roundNormalized(this, roundingMode, precision)

round(this, roundingMode, precision) ==
  roundNormalized(normalized(this), roundingMode, precision)

\* round() without arguments
roundDefault(this) == round(this, Default, PRECISION)

(***************************************************************************)
(* divideToIntegralValue, remainder, integralPart, decimalPart.            *)
(***************************************************************************)
\* divideToIntegralValue rounding toward negative infinity
divideToIntegralValueFloor(this, other) ==
  LET quotient == divide(this, other)
  IN  IF quotient.kind = "throw" THEN quotient
      ELSE Return(round(quotient.val, "floor", 0))

divideToIntegralValue(this, other) ==
  LET quotient == divide(this, other)
  IN  IF quotient.kind = "throw" THEN quotient
      ELSE Return(round(quotient.val, "down", 0))

remainder(this, other) ==
  LET integral == divideToIntegralValue(this, other)
  IN  IF integral.kind = "throw" THEN integral
      ELSE Return(subtract(this, multiply(integral.val, other)))

RECURSIVE integralPart(_)
integralPart(this) ==
  IF BIsNeg(this.significant) THEN negate(integralPart(negate(this)))
  ELSE LET n == normalized(this)
       IN  IF n.exponent >= 0 THEN n
           ELSE BigDecimal(BDiv(n.significant, BPow10(-n.exponent)), 0)

\* decimalPart that does not negate back the part of a negative value
RECURSIVE decimalPartUnsigned(_)
decimalPartUnsigned(this) ==
  IF BIsNeg(this.significant) THEN decimalPartUnsigned(negate(this))
  ELSE LET n == normalized(this)
       IN  IF n.exponent >= 0 THEN ZERO
           ELSE BigDecimal(BMod(n.significant, BPow10(-n.exponent)), n.exponent)

RECURSIVE decimalPart(_)
decimalPart(this) ==
  IF BIsNeg(this.significant) THEN negate(decimalPart(negate(this)))
  ELSE LET n == normalized(this)
       IN  IF n.exponent >= 0 THEN ZERO
           ELSE BigDecimal(BMod(n.significant, BPow10(-n.exponent)), n.exponent)

(***************************************************************************)
(* toString() and valueOf(string).                                         *)
(***************************************************************************)
toString(this) ==
  LET sign    == IF BIsNeg(this.significant) THEN <<"-">> ELSE <<>>
      numbers == RemoveMinus(BigToString(this.significant))
  IN  IF this.exponent > 0
      THEN sign \o PadEnd(numbers, this.exponent + Len(numbers))
      ELSE IF this.exponent = 0 THEN sign \o numbers
      ELSE LET units    == Substring(numbers, 0, Len(numbers) + this.exponent)
               decimals == Substring(numbers, Len(numbers) + this.exponent,
                                     Len(numbers))
           IN  sign \o units \o <<".">> \o decimals

\* the end (exclusive) of the longest run of digits of str starting at p
RECURSIVE DigitsEnd(_, _)
DigitsEnd(str, p) ==
  IF p <= Len(str) /\ IsDigitChar(str[p]) THEN DigitsEnd(str, p + 1) ELSE p

\* pattern.exec(value) for /^(-?[0-9]+)(?:\.([0-9]+)(?:[eE](-?[0-9]+))?)?$/:
\* whether it matches and its three groups; <<>> is a group that did not
\* take part in the match
NoMatch == [matched |-> FALSE, g1 |-> <<>>, g2 |-> <<>>, g3 |-> <<>>]

patternExec(value) ==
  LET n  == Len(value)
      s1 == IF n >= 1 /\ value[1] = "-" THEN 2 ELSE 1
      e1 == DigitsEnd(value, s1)
      g1 == SubSeq(value, 1, e1 - 1)
  IN  IF e1 = s1 THEN NoMatch
      ELSE IF e1 > n
      THEN [matched |-> TRUE, g1 |-> g1, g2 |-> <<>>, g3 |-> <<>>]
      ELSE IF value[e1] # "." THEN NoMatch
      ELSE LET s2 == e1 + 1
               e2 == DigitsEnd(value, s2)
               g2 == SubSeq(value, s2, e2 - 1)
           IN  IF e2 = s2 THEN NoMatch
               ELSE IF e2 > n
               THEN [matched |-> TRUE, g1 |-> g1, g2 |-> g2, g3 |-> <<>>]
               ELSE IF value[e2] \notin {"e", "E"} THEN NoMatch
               ELSE LET s3 == e2 + 1
                        d3 == IF s3 <= n /\ value[s3] = "-" THEN s3 + 1 ELSE s3
                        e3 == DigitsEnd(value, d3)
                    IN  IF e3 = d3 \/ e3 <= n THEN NoMatch
                        ELSE [matched |-> TRUE, g1 |-> g1, g2 |-> g2,
                              g3 |-> SubSeq(value, s3, n)]

valueOfString(value) ==
  LET result == patternExec(value)
  IN  IF ~result.matched THEN Throw("Invalid string")
      ELSE LET units    == BigDecimal(BigOfString(result.g1), 0)
               parsed   == IF result.g2 # <<>>
                           THEN BigDecimal(BigOfString(result.g2), -Len(result.g2))
                           ELSE BigDecimal(BZero, 0)
               decimals == IF signum(units) = -1 THEN negate(parsed) ELSE parsed
               exponent == IF result.g3 # <<>> THEN ParseInt(result.g3) ELSE 0
           IN  Return(normalized(
                 scaleByPowerOfTen(add(units, decimals), exponent)))

(***************************************************************************)
(* The inputs of the calls.                                                *)
(***************************************************************************)
\* significants beyond the range: trailing zeros (unnormalized forms) and
\* divisors that need several, or all ten, scaling steps of divide
SpecialSignificants == {10, -20, 120, 125, 1024, -1024}

Significants == (-MaxSig..MaxSig) \cup SpecialSignificants

Exponents == -MaxExp..MaxExp

Operands == {BigDecimal(BigOf(s), e) : s \in Significants, e \in Exponents}

\* dividends whose exponent exceeds every divisor's by more than ten
LargeOperands ==
  {BigDecimal(BigOf(s), e) : s \in {1, -7}, e \in {MaxExp + 11, MaxExp + 18}}

Dividends == Operands \cup LargeOperands

\* values with one, two and three digits beyond the kept ones, on both
\* sides of a tie and on it
RoundSignificants ==
  LET positive == {5, 15, 25, 120, 213, 215, 218, 225, 995,
                   2149, 2150, 2151, 2249, 2251, 2051, 9951}
  IN  Significants \cup positive \cup {-s : s \in positive}

RoundExponents == -(MaxPrecision + 2)..1

RoundOperands ==
  {BigDecimal(BigOf(s), e) : s \in RoundSignificants, e \in RoundExponents}
  \cup {BigDecimal(BigOf(s), -(PRECISION + 1)) : s \in {15, 25, -25, 24, 26}}

Precisions == 0..MaxPrecision

\* the props of round(): given, or left out and then defaulted
RoundProps ==
  [given : {TRUE}, roundingMode : RoundingModes, precision : Precisions]
  \cup {[given |-> FALSE, roundingMode |-> Default, precision |-> PRECISION]}

NoProps == [given |-> FALSE, roundingMode |-> Default, precision |-> PRECISION]

\* the calls of pow(): every operand to a negative, zero or small power,
\* and 2 to the power 16
PowExponents == -2..MaxPow

PowCalls == (Operands \X PowExponents) \cup {<<TWO, 16>>}

\* the receivers of sqrt(): every negative operand, zero in every
\* representation, and the squares of small integers, some of them with
\* trailing zeros moved into the exponent
SqrtOperands ==
  {x \in Operands : signum(x) <= 0}
  \cup {BigDecimal(BigOf(r * r), 2 * k) : r \in 1..(MaxSig + 1), k \in 0..1}
  \cup {BigDecimal(BigOf(100 * r * r), 0) : r \in 1..MaxSig}

\* the receivers of normalized(): the operands, and significants with up
\* to MaxExp + 1 trailing zeros
TrailingZeroOperands ==
  {BigDecimal(BMul(BigOf(s), BPow10(k)), e) :
     s \in {1, -3, 12, 101}, k \in 2..(MaxExp + 1), e \in Exponents}

NormalizedOperands == Operands \cup TrailingZeroOperands

\* what a chain of calls starts from: the constants of the class, and the
\* results of valueOf on a few strings
Constants == {MINUS_ONE, ZERO, ZERO_DOT_FIVE, ONE, TWO, TEN}

ChainStrings ==
  {<<"1", "0", ".", "5">>, <<"-", "2", ".", "5", "0">>,
   <<"0", ".", "0", "5">>, <<"1", "2", "0">>, <<"2", ".", "5", "e", "2">>}

\* the arguments of the chained calls
ChainPowers == 0..2

ChainScales == {-1, 1}

ChainProps == [given : {TRUE}, roundingMode : RoundingModes, precision : 0..1]

\* a result the caller holds on to for later calls: a BigDecimal within
\* MaxHeldDigits digits and MaxHeldExp powers of ten; a chain keeps
\* MaxKept results, one after the other
Keepable(v) ==
  /\ Len(v.significant.mag) <= MaxHeldDigits
  /\ v.exponent \in -MaxHeldExp..MaxHeldExp

Chars == {"-", ".", "e", "0", "2", "5"}

RECURSIVE StringsOfLen(_)
StringsOfLen(n) ==
  IF n = 0 THEN {<<>>}
  ELSE {Append(str, c) : str \in StringsOfLen(n - 1), c \in Chars}

Strings == UNION {StringsOfLen(n) : n \in 0..MaxStrLen}

(***************************************************************************)
(* State: the call in progress (op, its receiver and arguments) and what   *)
(* it returned or threw.  BigDecimal values are immutable, so a call       *)
(* changes nothing but its own result.                                     *)
(***************************************************************************)
VARIABLES op, this, other, value, props, power, ret, held, kept

vars == <<op, this, other, value, props, power, ret, held, kept>>

NoResult == [kind |-> "none"]

Init ==
  /\ op = "idle"
  /\ this = ZERO
  /\ other = ZERO
  /\ value = <<>>
  /\ props = NoProps
  /\ power = 0
  /\ ret = NoResult
  /\ held = ZERO
  /\ kept = 0

\* a call on a receiver, without arguments
Unary(name, x, result) ==
  /\ op' = name
  /\ this' = x
  /\ ret' = result
  /\ UNCHANGED <<other, value, props, power, held, kept>>

\* a call on a receiver with another BigDecimal
Binary(name, x, y, result) ==
  /\ op' = name
  /\ this' = x
  /\ other' = y
  /\ ret' = result
  /\ UNCHANGED <<value, props, power, held, kept>>

ValueOf ==
  /\ op = "idle"
  /\ \E str \in Strings :
       /\ op' = "valueOf"
       /\ value' = str
       /\ ret' = valueOfString(str)
       /\ UNCHANGED <<this, other, props, power, held, kept>>

ToStr ==
  /\ op = "idle"
  /\ \E x \in Operands : Unary("toString", x, Return(toString(x)))

Negate ==
  /\ op = "idle"
  /\ \E x \in Operands : Unary("negate", x, Return(negate(x)))

Normalized ==
  /\ op = "idle"
  /\ \E x \in NormalizedOperands :
       Unary("normalized", x, Return(normalized(x)))

Add ==
  /\ op = "idle"
  /\ \E x \in Operands, y \in Operands :
       Binary("add", x, y, Return(add(x, y)))

Subtract ==
  /\ op = "idle"
  /\ \E x \in Operands, y \in Operands :
       Binary("subtract", x, y, Return(subtract(x, y)))

Multiply ==
  /\ op = "idle"
  /\ \E x \in Operands, y \in Operands :
       Binary("multiply", x, y, Return(multiply(x, y)))

Divide ==
  /\ op = "idle"
  /\ \E x \in Dividends, y \in Operands :
       Binary("divide", x, y, divide(x, y))

DivideToIntegralValue ==
  /\ op = "idle"
  /\ \E x \in Dividends, y \in Operands :
       Binary("divideToIntegralValue", x, y, divideToIntegralValue(x, y))

Remainder ==
  /\ op = "idle"
  /\ \E x \in Dividends, y \in Operands :
       Binary("remainder", x, y, remainder(x, y))

IntegralPart ==
  /\ op = "idle"
  /\ \E x \in RoundOperands :
       Unary("integralPart", x, Return(integralPart(x)))

DecimalPart ==
  /\ op = "idle"
  /\ \E x \in RoundOperands :
       Unary("decimalPart", x, Return(decimalPart(x)))

Round ==
  /\ op = "idle"
  /\ \E x \in RoundOperands, p \in RoundProps :
       /\ op' = "round"
       /\ this' = x
       /\ props' = p
       /\ ret' = Return(round(x, p.roundingMode, p.precision))
       /\ UNCHANGED <<other, value, power, held, kept>>

CompareTo ==
  /\ op = "idle"
  /\ \E x \in Operands, y \in Operands :
       Binary("compareTo", x, y, Return(compareTo(x, y)))

Minimum ==
  /\ op = "idle"
  /\ \E x \in Operands, y \in Operands :
       Binary("min", x, y, Return(min(x, y)))

Maximum ==
  /\ op = "idle"
  /\ \E x \in Operands, y \in Operands :
       Binary("max", x, y, Return(max(x, y)))

EqualValue ==
  /\ op = "idle"
  /\ \E x \in Operands, y \in Operands :
       Binary("equalValue", x, y, Return(equalValue(x, y)))

Equals ==
  /\ op = "idle"
  /\ \E x \in Operands, y \in Operands :
       Binary("equals", x, y, Return(equals(x, y)))

Pow ==
  /\ op = "idle"
  /\ \E call \in PowCalls :
       /\ op' = "pow"
       /\ this' = call[1]
       /\ power' = call[2]
       /\ ret' = pow(call[1], call[2])
       /\ UNCHANGED <<other, value, props, held, kept>>

Sqrt ==
  /\ op = "idle"
  /\ \E x \in SqrtOperands : Unary("sqrt", x, sqrt(x))

\* the caller is done with the result and is free to make the next call
Finish ==
  /\ op # "idle"
  /\ op' = "idle"
  /\ this' = ZERO
  /\ other' = ZERO
  /\ value' = <<>>
  /\ props' = NoProps
  /\ power' = 0
  /\ ret' = NoResult
  /\ UNCHANGED <<held, kept>>

(***************************************************************************)
(* Chains of calls: the receiver and the arguments are the constants of    *)
(* the class and the result the caller kept from an earlier call.          *)
(***************************************************************************)
\* the values at hand
Kept == Constants \cup {held}

\* a receiver and an argument at hand, the kept result among them
KeptPairs == {pair \in Kept \X Kept : pair[1] = held \/ pair[2] = held}

ThenValueOf ==
  /\ op = "idle"
  /\ \E str \in ChainStrings :
       /\ op' = "valueOf"
       /\ value' = str
       /\ ret' = valueOfString(str)
       /\ UNCHANGED <<this, other, props, power, held, kept>>

ThenNegate ==
  /\ op = "idle"
  /\ \E x \in Kept : Unary("negate", x, Return(negate(x)))

ThenAbs ==
  /\ op = "idle"
  /\ \E x \in Kept : Unary("abs", x, Return(abs(x)))

ThenIntegralPart ==
  /\ op = "idle"
  /\ \E x \in Kept : Unary("integralPart", x, Return(integralPart(x)))

ThenDecimalPart ==
  /\ op = "idle"
  /\ \E x \in Kept : Unary("decimalPart", x, Return(decimalPart(x)))

ThenAdd ==
  /\ op = "idle"
  /\ \E pair \in KeptPairs :
       Binary("add", pair[1], pair[2],
              Return(add(pair[1], pair[2])))

ThenSubtract ==
  /\ op = "idle"
  /\ \E pair \in KeptPairs :
       Binary("subtract", pair[1], pair[2],
              Return(subtract(pair[1], pair[2])))

ThenMultiply ==
  /\ op = "idle"
  /\ \E pair \in KeptPairs :
       Binary("multiply", pair[1], pair[2],
              Return(multiply(pair[1], pair[2])))

ThenDivide ==
  /\ op = "idle"
  /\ \E pair \in KeptPairs :
       Binary("divide", pair[1], pair[2],
              divide(pair[1], pair[2]))

ThenMinimum ==
  /\ op = "idle"
  /\ \E pair \in KeptPairs :
       Binary("min", pair[1], pair[2],
              Return(min(pair[1], pair[2])))

ThenMaximum ==
  /\ op = "idle"
  /\ \E pair \in KeptPairs :
       Binary("max", pair[1], pair[2],
              Return(max(pair[1], pair[2])))

ThenDivideToIntegralValue ==
  /\ op = "idle"
  /\ \E pair \in KeptPairs :
       Binary("divideToIntegralValue", pair[1], pair[2],
              divideToIntegralValue(pair[1], pair[2]))

ThenRemainder ==
  /\ op = "idle"
  /\ \E pair \in KeptPairs :
       Binary("remainder", pair[1], pair[2],
              remainder(pair[1], pair[2]))

ThenPow ==
  /\ op = "idle"
  /\ \E n \in ChainPowers :
       /\ op' = "pow"
       /\ this' = held
       /\ power' = n
       /\ ret' = pow(held, n)
       /\ UNCHANGED <<other, value, props, held, kept>>

ThenScaleByPowerOfTen ==
  /\ op = "idle"
  /\ \E n \in ChainScales :
       /\ op' = "scaleByPowerOfTen"
       /\ this' = held
       /\ power' = n
       /\ ret' = Return(scaleByPowerOfTen(held, n))
       /\ UNCHANGED <<other, value, props, held, kept>>

ThenRound ==
  /\ op = "idle"
  /\ \E p \in ChainProps :
       /\ op' = "round"
       /\ this' = held
       /\ props' = p
       /\ ret' = Return(round(held, p.roundingMode, p.precision))
       /\ UNCHANGED <<other, value, power, held, kept>>

\* the caller keeps the result for later calls
Keep ==
  /\ op # "idle"
  /\ ret.kind = "return"
  /\ Keepable(ret.val)
  /\ kept < MaxKept
  /\ op' = "idle"
  /\ this' = ZERO
  /\ other' = ZERO
  /\ value' = <<>>
  /\ props' = NoProps
  /\ power' = 0
  /\ ret' = NoResult
  /\ held' = ret.val
  /\ kept' = kept + 1

NextParse == ValueOf \/ ToStr \/ Finish

NextArith ==
  Normalized \/ Negate \/ Add \/ Subtract \/ Multiply \/ Finish

NextDivide == Divide \/ DivideToIntegralValue \/ Remainder \/ Finish

NextQuotient == Divide \/ Finish

NextRound == IntegralPart \/ DecimalPart \/ Round \/ Finish

NextPower == Pow \/ Sqrt \/ Finish

NextCompare ==
  CompareTo \/ Minimum \/ Maximum \/ EqualValue \/ Equals \/ Finish

NextClosure ==
  \/ ThenValueOf \/ ThenNegate \/ ThenAbs \/ ThenIntegralPart
  \/ ThenDecimalPart \/ ThenAdd \/ ThenSubtract
  \/ ThenMultiply \/ ThenDivide \/ ThenMinimum
  \/ ThenMaximum \/ ThenDivideToIntegralValue \/ ThenRemainder
  \/ ThenPow \/ ThenScaleByPowerOfTen \/ ThenRound
  \/ Keep \/ Finish

Next ==
  \/ ValueOf \/ ToStr
  \/ Normalized \/ Negate \/ Add \/ Subtract \/ Multiply
  \/ Divide \/ DivideToIntegralValue \/ Remainder
  \/ IntegralPart \/ DecimalPart \/ Round
  \/ CompareTo \/ Minimum \/ Maximum \/ EqualValue \/ Equals
  \/ Pow \/ Sqrt
  \/ ThenValueOf \/ ThenNegate \/ ThenAbs \/ ThenIntegralPart
  \/ ThenDecimalPart \/ ThenAdd \/ ThenSubtract
  \/ ThenMultiply \/ ThenDivide \/ ThenMinimum
  \/ ThenMaximum \/ ThenDivideToIntegralValue \/ ThenRemainder
  \/ ThenPow \/ ThenScaleByPowerOfTen \/ ThenRound
  \/ Keep
  \/ Finish

Spec == Init /\ [][Next]_vars

\* the calls of one area only
SpecParse == Init /\ [][NextParse]_vars

SpecArith == Init /\ [][NextArith]_vars

SpecDivide == Init /\ [][NextDivide]_vars

SpecQuotient == Init /\ [][NextQuotient]_vars

SpecRound == Init /\ [][NextRound]_vars

SpecCompare == Init /\ [][NextCompare]_vars

SpecPower == Init /\ [][NextPower]_vars

\* chains of calls on the constants and on earlier results
SpecClosure == Init /\ [][NextClosure]_vars

(***************************************************************************)
(* The value of a BigDecimal is significant * 10^exponent.  Values are     *)
(* compared exactly, as integers in units of a common power of ten.        *)
(***************************************************************************)
\* the value of x in units of 10^m, for m <= x.exponent
Scaled(x, m) == BMul(x.significant, BPow10(x.exponent - m))

CmpValue(x, y) ==
  LET m == Min(x.exponent, y.exponent)
  IN  BCmp(Scaled(x, m), Scaled(y, m))

SameValue(x, y) == CmpValue(x, y) = 0

BAbs(x) == Big(FALSE, x.mag)

Returned == ret.kind = "return"

(***************************************************************************)
(* C1.  valueOf(string) returns the decimal number the string denotes; a   *)
(* string with a leading '-' and a fractional part parses to the negation  *)
(* of what the string without the '-' parses to.                           *)
(***************************************************************************)
\* the number a matching string denotes: sign, all its digits, and the
\* exponent suffix less the number of fractional digits
Denoted(str) ==
  LET m      == patternExec(str)
      neg    == str[1] = "-"
      int    == IF neg THEN Tail(m.g1) ELSE m.g1
      chars  == int \o m.g2
      digits == [i \in 1..Len(chars) |-> DigitOfChar(chars[i])]
      suffix == IF m.g3 # <<>> THEN ParseInt(m.g3) ELSE 0
  IN  BigDecimal(Big(neg, Strip(digits)), suffix - Len(m.g2))

\* C1: every matching string parses to the number it denotes, and "-" in
\* front of a string with a fractional part negates the parsed value
C1_ParsesDenotedValue ==
  (op = "valueOf" /\ patternExec(value).matched) =>
    /\ Returned
    /\ SameValue(ret.val, Denoted(value))
    /\ (value[1] = "-" /\ patternExec(value).g2 # <<>>) =>
         SameValue(ret.val, negate(valueOfString(Tail(value)).val))

(***************************************************************************)
(* C2.  Parse/format round trip on canonical strings.                      *)
(***************************************************************************)
\* canonical: optional '-', integer digits without superfluous leading
\* zeros, optional fractional digits without a trailing zero, no exponent
\* suffix, and no sign on zero
Canonical(str) ==
  LET m   == patternExec(str)
      neg == str[1] = "-"
      int == IF neg THEN Tail(m.g1) ELSE m.g1
  IN  /\ m.matched
      /\ m.g3 = <<>>
      /\ (Len(int) = 1 \/ int[1] # "0")
      /\ (m.g2 # <<>> => m.g2[Len(m.g2)] # "0")
      /\ ~(neg /\ BIsZero(Denoted(str).significant))

\* C2: for every canonical string s, valueOf(s).toString() is exactly s
C2_RoundTrip ==
  (op = "valueOf" /\ Canonical(value)) =>
    (Returned /\ toString(ret.val) = value)

(***************************************************************************)
(* C3.  add, subtract and multiply are exact.                              *)
(***************************************************************************)
\* the exact sum, difference and product of the values of x and y, as
\* unnormalized pairs computed without the code's alignment
ExactSum(x, y) ==
  LET m == Min(x.exponent, y.exponent)
  IN  BigDecimal(BAdd(Scaled(x, m), Scaled(y, m)), m)

ExactDifference(x, y) ==
  LET m == Min(x.exponent, y.exponent)
  IN  BigDecimal(BSub(Scaled(x, m), Scaled(y, m)), m)

ExactProduct(x, y) ==
  BigDecimal(BMul(x.significant, y.significant), x.exponent + y.exponent)

\* C3: the value of a.add(b) is value(a) + value(b), of a.subtract(b) is
\* value(a) - value(b), of a.multiply(b) is value(a) * value(b), exactly
C3_ExactArithmetic ==
  /\ op = "add" => Returned /\ SameValue(ret.val, ExactSum(this, other))
  /\ op = "subtract" =>
       Returned /\ SameValue(ret.val, ExactDifference(this, other))
  /\ op = "multiply" =>
       Returned /\ SameValue(ret.val, ExactProduct(this, other))

\* an addition that aligns exponents: the receiver has the smaller exponent
\* (the call is delegated), the signs differ and one operand is unnormalized
C3_Witness ==
  /\ op = "add"
  /\ this.exponent < other.exponent
  /\ signum(this) = -1
  /\ signum(other) = 1
  /\ other # normalized(other)
  /\ signum(ret.val) # 0

(***************************************************************************)
(* C4.  Division error cases.                                              *)
(***************************************************************************)
\* C4: 0/0 throws "0/0 is undefined", x/0 throws "Division by zero", both
\* without a value; 0/y for y # 0 returns the normalized zero (0, 0)
C4_DivisionErrors ==
  op = "divide" =>
    /\ (signum(this) = 0 /\ signum(other) = 0) =>
         ret = Throw("0/0 is undefined")
    /\ (signum(this) # 0 /\ signum(other) = 0) =>
         ret = Throw("Division by zero")
    /\ (signum(this) = 0 /\ signum(other) # 0) =>
         ret = Return(BigDecimal(BZero, 0))
    /\ signum(other) = 0 => ret.kind = "throw" /\ "val" \notin DOMAIN ret
    /\ signum(other) # 0 => Returned

\* an unnormalized zero divided by an unnormalized zero has thrown
C4_Witness ==
  /\ op = "divide"
  /\ signum(this) = 0
  /\ this.exponent # 0
  /\ signum(other) = 0
  /\ other.exponent # 0
  /\ ret.kind = "throw"

(***************************************************************************)
(* C5.  Exact division of terminating quotients.                           *)
(***************************************************************************)
\* the least k in 0..DivideSteps with x.significant * 10^k divisible by
\* y.significant, or DivideSteps + 1 when there is none
RECURSIVE ScalingNeeded(_, _, _)
ScalingNeeded(x, y, k) ==
  IF k > DivideSteps THEN k
  ELSE IF BIsZero(BMod(BMul(x.significant, BPow10(k)), y.significant)) THEN k
  ELSE ScalingNeeded(x, y, k + 1)

Terminating(x, y) == ScalingNeeded(x, y, 0) <= DivideSteps

\* C5: when a.significant * 10^k is divisible by b.significant for some k
\* in 0..10, a.divide(b) is the exact quotient: multiplied by b it gives a
C5_ExactQuotient ==
  (op = "divide" /\ signum(other) # 0 /\ Terminating(this, other)) =>
    /\ Returned
    /\ equalValue(multiply(ret.val, other), this)
    /\ SameValue(ExactProduct(ret.val, other), this)

\* a quotient that needs all ten scaling steps, with a negative operand
C5_Witness ==
  /\ op = "divide"
  /\ signum(this) # 0
  /\ signum(other) = -1
  /\ ScalingNeeded(this, other, 0) = DivideSteps
  /\ Returned

(***************************************************************************)
(* C6.  Integral/decimal split identity.                                   *)
(***************************************************************************)
AbsValue(x) == BigDecimal(BAbs(x.significant), x.exponent)

IsInteger(x) ==
  x.exponent >= 0 \/ BIsZero(BMod(x.significant, BPow10(-x.exponent)))

\* |x| < 1
BelowOne(x) == CmpValue(AbsValue(x), ONE) < 0

\* zero, or of the sign of x
ZeroOrSignOf(r, x) == signum(r) = 0 \/ signum(r) = signum(x)

\* C6: integralPart + decimalPart has the value of x; integralPart is x
\* truncated toward zero; |decimalPart| < 1 and it is zero or has x's sign
C6_SplitIdentity ==
  /\ op = "integralPart" =>
       /\ Returned
       /\ equalValue(add(ret.val, decimalPart(this)), this)
       /\ SameValue(ExactSum(ret.val, decimalPart(this)), this)
       /\ IsInteger(ret.val)
       /\ CmpValue(AbsValue(ret.val), AbsValue(this)) <= 0
       /\ BelowOne(ExactDifference(this, ret.val))
       /\ ZeroOrSignOf(ret.val, this)
  /\ op = "decimalPart" =>
       /\ Returned
       /\ equalValue(add(integralPart(this), ret.val), this)
       /\ SameValue(ExactSum(integralPart(this), ret.val), this)
       /\ BelowOne(ret.val)
       /\ ZeroOrSignOf(ret.val, this)

\* the decimal part of a negative, unnormalized value with both parts
C6_Witness ==
  /\ op = "decimalPart"
  /\ signum(this) = -1
  /\ this # normalized(this)
  /\ signum(ret.val) = -1
  /\ signum(integralPart(this)) = -1

(***************************************************************************)
(* C7.  divideToIntegralValue returns the integer part of the quotient.    *)
(***************************************************************************)
\* q is the quotient of a by b # 0 truncated toward zero:
\* |q| * |b| <= |a| < (|q| + 1) * |b|, and q is zero or has the sign of a/b
TruncatedQuotient(q, a, b) ==
  /\ IsInteger(q)
  /\ CmpValue(ExactProduct(AbsValue(q), AbsValue(b)), AbsValue(a)) <= 0
  /\ CmpValue(AbsValue(a),
              ExactProduct(ExactSum(AbsValue(q), ONE), AbsValue(b))) < 0
  /\ (signum(q) = 0 \/ signum(q) = signum(a) * signum(b))

\* C7: for all a and nonzero b, of any exponents, a.divideToIntegralValue(b)
\* is the exact quotient value(a)/value(b) truncated toward zero
C7_IntegralQuotient ==
  (op = "divideToIntegralValue" /\ signum(other) # 0) =>
    (Returned /\ TruncatedQuotient(ret.val, this, other))

(***************************************************************************)
(* C8.  remainder: definition and sign.                                    *)
(***************************************************************************)
\* C8: a.remainder(b) has the value of a - a.divideToIntegralValue(b) * b
\* and is zero or has the signum of a
C8_Remainder ==
  (op = "remainder" /\ signum(other) # 0) =>
    /\ Returned
    /\ SameValue(ret.val,
                 ExactDifference(this,
                   ExactProduct(divideToIntegralValue(this, other).val, other)))
    /\ ZeroOrSignOf(ret.val, this)

\* a negative remainder of a negative dividend by a positive divisor
C8_Witness ==
  /\ op = "remainder"
  /\ signum(this) = -1
  /\ signum(other) = 1
  /\ Returned
  /\ signum(ret.val) = -1

(***************************************************************************)
(* C9, C10.  The half-way rounding modes round to the closest multiple of  *)
(* 10^-precision.                                                          *)
(***************************************************************************)
\* r is a multiple of 10^-p
IsMultiple(r, p) ==
  r.exponent >= -p \/ BIsZero(BMod(r.significant, BPow10(-p - r.exponent)))

\* |x - r|
Distance(x, r) == AbsValue(ExactDifference(x, r))

\* half of 10^-p
HalfUnit(p) == BigDecimal(BigOf(5), -p - 1)

\* r is a multiple of 10^-p and none is closer to x
Closest(r, x, p) ==
  IsMultiple(r, p) /\ CmpValue(Distance(x, r), HalfUnit(p)) <= 0

\* x lies exactly halfway between two adjacent multiples of 10^-p
Tie(r, x, p) == CmpValue(Distance(x, r), HalfUnit(p)) = 0

\* the last kept digit of a multiple r of 10^-p is even
EvenLastDigit(r, p) == BIsZero(BMod(Scaled(r, -p), BigOf(2)))

\* C9: round with mode halfEven returns the multiple of 10^-p closest to
\* the value, and on an exact tie the one whose last kept digit is even
C9_HalfEvenClosest ==
  (op = "round" /\ props.roundingMode = "halfEven") =>
    /\ Returned
    /\ Closest(ret.val, this, props.precision)
    /\ Tie(ret.val, this, props.precision) =>
         EvenLastDigit(ret.val, props.precision)

\* C10: round with mode halfDown returns the multiple of 10^-p closest to
\* the value, and on an exact tie the one toward zero
C10_HalfDownClosest ==
  (op = "round" /\ props.roundingMode = "halfDown") =>
    /\ Returned
    /\ Closest(ret.val, this, props.precision)
    /\ Tie(ret.val, this, props.precision) =>
         CmpValue(AbsValue(ret.val), AbsValue(this)) < 0

(***************************************************************************)
(* C11.  halfUp rounds to the closest multiple, ties away from zero.       *)
(***************************************************************************)
\* |x| in whole units of 10^-p, the digits beyond them dropped
KeptDigits(x, p) ==
  IF x.exponent >= -p THEN Scaled(AbsValue(x), -p)
  ELSE BDiv(BAbs(x.significant), BPow10(-p - x.exponent))

\* the first digit of |x| beyond the unit 10^-p
FirstDropped(x, p) ==
  IF x.exponent >= -p THEN BZero
  ELSE BMod(BDiv(BAbs(x.significant), BPow10(-p - x.exponent - 1)), BTen)

\* the number of digits the normalized form of x has beyond the unit 10^-p
ExcessDigits(x, p) == Max(0, -p - normalized(x).exponent)

\* C11: round with mode halfUp returns the multiple of 10^-p closest to the
\* value, on an exact tie the one away from zero; its kept digits are those
\* of the value, incremented exactly when the first dropped digit is >= 5
C11_HalfUpClosest ==
  (op = "round" /\ props.roundingMode = "halfUp") =>
    /\ Returned
    /\ Closest(ret.val, this, props.precision)
    /\ Tie(ret.val, this, props.precision) =>
         CmpValue(AbsValue(ret.val), AbsValue(this)) > 0
    /\ ZeroOrSignOf(ret.val, this)
    /\ KeptDigits(ret.val, props.precision) =
         (IF BCmp(FirstDropped(this, props.precision), BigOf(5)) >= 0
          THEN BAdd(KeptDigits(this, props.precision), BOne)
          ELSE KeptDigits(this, props.precision))

\* a negative value with several excess digits, the first of them 5, has
\* been rounded away from zero
C11_Witness ==
  /\ op = "round"
  /\ props.roundingMode = "halfUp"
  /\ signum(this) = -1
  /\ ExcessDigits(this, props.precision) >= 2
  /\ FirstDropped(this, props.precision) = BigOf(5)
  /\ CmpValue(AbsValue(ret.val), AbsValue(this)) > 0

(***************************************************************************)
(* C12.  ceiling and floor round toward the infinities.                    *)
(***************************************************************************)
\* 10^-p
Unit(p) == BigDecimal(BOne, -p)

\* r is the smallest multiple of 10^-p that is >= x
SmallestAbove(r, x, p) ==
  /\ IsMultiple(r, p)
  /\ CmpValue(r, x) >= 0
  /\ CmpValue(ExactDifference(r, x), Unit(p)) < 0

\* r is the largest multiple of 10^-p that is <= x
LargestBelow(r, x, p) ==
  /\ IsMultiple(r, p)
  /\ CmpValue(r, x) <= 0
  /\ CmpValue(ExactDifference(x, r), Unit(p)) < 0

\* C12: round with mode ceiling returns the smallest multiple of 10^-p that
\* is >= the value, and with mode floor the largest one that is <= it
C12_TowardInfinities ==
  /\ (op = "round" /\ props.roundingMode = "ceiling") =>
       (Returned /\ SmallestAbove(ret.val, this, props.precision))
  /\ (op = "round" /\ props.roundingMode = "floor") =>
       (Returned /\ LargestBelow(ret.val, this, props.precision))

\* the ceiling of a negative, unnormalized value with excess digits lies
\* above it, toward zero
C12_Witness ==
  /\ op = "round"
  /\ props.roundingMode = "ceiling"
  /\ signum(this) = -1
  /\ this # normalized(this)
  /\ ExcessDigits(this, props.precision) >= 1
  /\ CmpValue(ret.val, this) > 0

(***************************************************************************)
(* C13.  up and down round relative to zero.                               *)
(***************************************************************************)
\* r is x truncated toward zero to a multiple of 10^-p
TruncatedTowardZero(r, x, p) ==
  /\ IsMultiple(r, p)
  /\ CmpValue(AbsValue(r), AbsValue(x)) <= 0
  /\ CmpValue(ExactDifference(AbsValue(x), AbsValue(r)), Unit(p)) < 0
  /\ ZeroOrSignOf(r, x)

\* r is the multiple of 10^-p of smallest magnitude with |r| >= |x|
SmallestMagnitudeAbove(r, x, p) ==
  /\ IsMultiple(r, p)
  /\ CmpValue(AbsValue(r), AbsValue(x)) >= 0
  /\ CmpValue(ExactDifference(AbsValue(r), AbsValue(x)), Unit(p)) < 0
  /\ signum(r) = signum(x)

ThirdOperands ==
  {BigDecimal(BigOf(s), e) :
     s \in {-MaxSig, -1, 0, 1, 2, MaxSig, 10, -20, 120},
     e \in {-MaxExp, -1, 0, MaxExp}}

\* C14: a.compareTo(b) is one of -1, 0, 1 and is the sign of
\* value(a) - value(b); b.compareTo(a) is its negation; compareTo is
\* transitive; min (max) returns one of its operands, and that operand
\* compares <= 0 (>= 0) with both
C14_TotalOrder ==
  /\ op = "compareTo" =>
       /\ Returned
       /\ ret.val \in {-1, 0, 1}
       /\ ret.val = CmpValue(this, other)
       /\ ret.val = -compareTo(other, this)
       /\ \A c \in ThirdOperands :
            (ret.val <= 0 /\ compareTo(other, c) <= 0) =>
              compareTo(this, c) <= 0
  /\ op = "min" =>
       /\ Returned
       /\ ret.val \in {this, other}
       /\ compareTo(ret.val, this) <= 0
       /\ compareTo(ret.val, other) <= 0
  /\ op = "max" =>
       /\ Returned
       /\ ret.val \in {this, other}
       /\ compareTo(ret.val, this) >= 0
       /\ compareTo(ret.val, other) >= 0

\* a comparison that delegates to the other operand: the receiver is
\* unnormalized with the smaller exponent, and it is the greater value
C14_Witness ==
  /\ op = "compareTo"
  /\ this # normalized(this)
  /\ normalized(this).exponent < normalized(other).exponent
  /\ signum(other) = 1
  /\ ret.val = 1

(***************************************************************************)
(* C15.  equalValue is numeric equality, equals is component-wise.         *)
(***************************************************************************)
\* C15: a.equalValue(b) holds exactly when the values are equal, which is
\* exactly when a.compareTo(b) is 0; a.equals(b) holds exactly when the two
\* pairs are identical, and then a.equalValue(b) holds as well
C15_Equality ==
  /\ op = "equalValue" =>
       /\ Returned
       /\ ret.val \in BOOLEAN
       /\ ret.val <=> SameValue(this, other)
       /\ ret.val <=> (compareTo(this, other) = 0)
  /\ op = "equals" =>
       /\ Returned
       /\ ret.val \in BOOLEAN
       /\ ret.val <=> (this = other)
       /\ ret.val => equalValue(this, other)

\* two nonzero values that are equal in value but not component-wise
C15_Witness ==
  /\ op = "equalValue"
  /\ signum(this) # 0
  /\ ret.val = TRUE
  /\ ~equals(this, other)

(***************************************************************************)
(* C16.  add and multiply are commutative.                                 *)
(***************************************************************************)
\* C16: a.add(b) and b.add(a) are equal in value, and so are a.multiply(b)
\* and b.multiply(a); add hands the call over to the other operand at most
\* once
C16_Commutativity ==
  /\ op = "add" =>
       /\ Returned
       /\ equalValue(ret.val, add(other, this))
       /\ addDelegations(this, other) <= 1
       /\ addDelegations(other, this) <= 1
  /\ op = "multiply" =>
       /\ Returned
       /\ equalValue(ret.val, multiply(other, this))

\* an addition of two different nonzero values that was delegated once
C16_Witness ==
  /\ op = "add"
  /\ this.exponent < other.exponent
  /\ addDelegations(this, other) = 1
  /\ signum(this) # 0
  /\ signum(other) # 0
  /\ ~SameValue(this, other)
  /\ signum(ret.val) # 0

(***************************************************************************)
(* C17.  pow is the exact n-fold product; negative powers fail.            *)
(***************************************************************************)
\* the exact product of n factors x, as an unnormalized pair
RECURSIVE NFoldProduct(_, _)
NFoldProduct(x, n) ==
  IF n = 0 THEN ONE ELSE ExactProduct(NFoldProduct(x, n - 1), x)

\* C17: for n >= 0, a.pow(n) has exactly the value of the product of n
\* factors a and is (significant^n, exponent * n) normalized; a.pow(0) is 1,
\* a.pow(n + 1) is equal in value to a.pow(n).multiply(a), and pow(2, 16) is
\* 65536; for n < 0, pow throws and returns no value
C17_Pow ==
  /\ (op = "pow" /\ power >= 0) =>
       /\ Returned
       /\ SameValue(ret.val, NFoldProduct(this, power))
       /\ ret.val = normalized(BigDecimal(BPow(this.significant, power),
                                          this.exponent * power))
       /\ power = 0 => ret.val = ONE
       /\ equalValue(pow(this, power + 1).val, multiply(ret.val, this))
       /\ (this = TWO /\ power = 16) =>
            ret.val = BigDecimal(BigOf(65536), 0)
  /\ (op = "pow" /\ power < 0) =>
       /\ ret = Throw("Negative exponents are not supported")
       /\ "val" \notin DOMAIN ret

\* a power above one of a negative, unnormalized value with a negative
\* exponent
C17_Witness ==
  /\ op = "pow"
  /\ power >= 2
  /\ signum(this) = -1
  /\ this # normalized(this)
  /\ this.exponent < 0
  /\ Returned
  /\ signum(ret.val) = -1

(***************************************************************************)
(* C18.  sqrt fails exactly on negative operands.                          *)
(***************************************************************************)
\* r is the non-negative square root of x, exactly
ExactRoot(r, x) == signum(r) >= 0 /\ SameValue(ExactProduct(r, r), x)

\* C18: sqrt throws exactly when its receiver is negative; for a receiver
\* that is zero or a perfect square whose seed is its root, the ten rounds
\* raise no error and the result is exactly the root
C18_SqrtFailsOnlyOnNegative ==
  op = "sqrt" =>
    /\ ret.kind = "throw" <=> signum(this) = -1
    /\ signum(this) >= 0 => (Returned /\ ExactRoot(ret.val, this))

(***************************************************************************)
(* C19.  normalized() keeps the value, establishes the invariant and is    *)
(* idempotent.                                                             *)
(***************************************************************************)
\* the invariant of a normalized pair: a nonzero significant is not
\* divisible by 10, and a zero significant has exponent 0
IsNormalized(x) ==
  IF BIsZero(x.significant) THEN x.exponent = 0
  ELSE ~BIsZero(BMod(x.significant, BTen))

\* C19: normalized() returns a pair of the same value that satisfies the
\* invariant, and normalizing the result again changes nothing
C19_Normalization ==
  op = "normalized" =>
    /\ Returned
    /\ SameValue(ret.val, this)
    /\ IsNormalized(ret.val)
    /\ equals(normalized(ret.val), ret.val)
    /\ equals(normalized(normalized(this)), normalized(this))

\* a negative significant that lost several trailing zeros
C19_Witness ==
  /\ op = "normalized"
  /\ signum(this) = -1
  /\ ret.val.exponent >= this.exponent + 2
  /\ IsNormalized(ret.val)

(***************************************************************************)
(* C20.  The precision of an inexact division.                             *)
(***************************************************************************)
\* 10^(a.exponent - b.exponent - DivideSteps): the unit of the last digit
\* divide produces for a / b
QuotientUnit(a, b) == BigDecimal(BOne, a.exponent - b.exponent - DivideSteps)

\* C20: when a.significant * 10^k is divisible by b.significant for no
\* k < 10, divide scales exactly 10 times and returns
\* trunc(a.significant * 10^10 / b.significant) at exponent
\* a.exponent - b.exponent - 10, truncated toward zero: |result| <= |a / b|
\* and |a / b| - |result| < 10^(a.exponent - b.exponent - 10); the scaling
\* loop never takes more than 10 steps
C20_PrecisionBound ==
  /\ (op = "divide" /\ signum(other) # 0
        /\ ScalingNeeded(this, other, 0) >= DivideSteps) =>
       /\ Returned
       /\ divideLoop(this.significant, this.exponent, other, 0).i = DivideSteps
       /\ SameValue(ret.val,
            BigDecimal(BDiv(BMul(this.significant, BPow10(DivideSteps)),
                            other.significant),
                       this.exponent - other.exponent - DivideSteps))
       /\ ZeroOrSignOf(ret.val, ExactProduct(this, other))
       /\ CmpValue(ExactProduct(AbsValue(ret.val), AbsValue(other)),
                   AbsValue(this)) <= 0
       /\ CmpValue(ExactDifference(AbsValue(this),
                     ExactProduct(AbsValue(ret.val), AbsValue(other))),
                   ExactProduct(QuotientUnit(this, other), AbsValue(other))) < 0
  /\ (op = "divide" /\ signum(other) # 0) =>
       divideLoop(this.significant, this.exponent, other, 0).i <= DivideSteps

\* a negative quotient that does not terminate: ten steps, and the result
\* is short of the exact quotient
C20_Witness ==
  /\ op = "divide"
  /\ signum(other) # 0
  /\ ScalingNeeded(this, other, 0) > DivideSteps
  /\ Returned
  /\ signum(ret.val) = -1
  /\ ~SameValue(ExactProduct(ret.val, other), this)

(***************************************************************************)
(* C21.  Rounding the negation is the negation of the mirrored rounding.   *)
(***************************************************************************)
\* ceiling and floor mirror each other, every other mode mirrors itself
Mirror(roundingMode) ==
  IF roundingMode = "ceiling" THEN "floor"
  ELSE IF roundingMode = "floor" THEN "ceiling"
  ELSE roundingMode

\* C21: for every value x, mode m and precision p, round(x.negate(), m, p)
\* is equal in value to round(x, mirror(m), p).negate(); #roundCeiling and
\* #roundFloor reflect a value at most once
C21_NegationSymmetry ==
  op = "round" =>
    /\ Returned
    /\ equalValue(round(negate(this), Mirror(props.roundingMode),
                        props.precision),
                  negate(ret.val))
    /\ equalValue(round(negate(this), props.roundingMode, props.precision),
                  negate(round(this, Mirror(props.roundingMode),
                               props.precision)))
    /\ ceilingReflections(normalized(this)) <= 1
    /\ floorReflections(normalized(this)) <= 1

\* the floor of a negative value with excess digits: one reflection, and
\* the result lies below the value
C21_Witness ==
  /\ op = "round"
  /\ props.roundingMode = "floor"
  /\ signum(this) = -1
  /\ ExcessDigits(this, props.precision) >= 1
  /\ floorReflections(normalized(this)) = 1
  /\ CmpValue(ret.val, this) < 0

(***************************************************************************)
(* C22.  The cases in which round changes nothing, and its defaults.       *)
(***************************************************************************)
\* C22: for every mode and precision p, round returns zero for a value of
\* zero, and exactly the normalized value when that has exponent >= -p; in
\* every case the result is normalized and has exponent >= -p; without
\* arguments round uses mode halfEven and precision 10
C22_RoundNoOp ==
  op = "round" =>
    /\ Returned
    /\ signum(this) = 0 => equals(ret.val, ZERO)
    /\ normalized(this).exponent >= -props.precision =>
         equals(ret.val, normalized(this))
    /\ IsNormalized(ret.val)
    /\ ret.val.exponent >= -props.precision
    /\ ~props.given => equals(ret.val, round(this, "halfEven", 10))

\* an unnormalized value whose trailing zeros alone reach beyond the
\* precision comes back normalized, whatever the mode
C22_Witness ==
  /\ op = "round"
  /\ props.given
  /\ props.roundingMode = "ceiling"
  /\ signum(this) = 1
  /\ this.exponent < -props.precision
  /\ normalized(this).exponent >= -props.precision
  /\ equals(ret.val, normalized(this))

(***************************************************************************)
(* C23.  The remainder is smaller in magnitude than the divisor.           *)
(***************************************************************************)
\* C23: for all a and nonzero b, whatever their exponents,
\* |a.remainder(b)| < |b|
C23_RemainderBelowDivisor ==
  (op = "remainder" /\ signum(other) # 0) =>
    (Returned /\ CmpValue(AbsValue(ret.val), AbsValue(other)) < 0)

(***************************************************************************)
(* C24.  divide and the representation of its operands.                    *)
(***************************************************************************)
\* the same value with k more trailing zeros in the significant
Rescaled(x, k) == BigDecimal(BMul(x.significant, BPow10(k)), x.exponent - k)

\* how many trailing zeros the other representations add to the dividend
\* and to the divisor
Rescalings == {<<1, 0>>, <<2, 0>>, <<0, 1>>, <<1, 2>>}

\* q is exactly a / b
ExactQuotient(q, a, b) == SameValue(ExactProduct(q, b), a)

\* the coarser of the units of the last digits of a / b and c / d
CoarserUnit(a, b, c, d) ==
  IF QuotientUnit(a, b).exponent >= QuotientUnit(c, d).exponent
  THEN QuotientUnit(a, b)
  ELSE QuotientUnit(c, d)

\* C24: for all a, a', b, b' with a.equalValue(a'), b.equalValue(b') and b
\* nonzero, a.divide(b) and a'.divide(b') are equal in value
C24_RepresentationIndependent ==
  (op = "divide" /\ signum(other) # 0) =>
    \A r \in Rescalings :
      equalValue(ret.val,
                 divide(Rescaled(this, r[1]), Rescaled(other, r[2])).val)

\* C24, amended: a.divide(b) and a'.divide(b') are equal in value when both
\* are exact quotients; in every case they differ by less than the coarser
\* of the units of their last digits, 10^(a.exponent - b.exponent - 10)
C24_RepresentationWithinUnit ==
  (op = "divide" /\ signum(other) # 0) =>
    \A r \in Rescalings :
      LET a == Rescaled(this, r[1])
          b == Rescaled(other, r[2])
          q == divide(a, b).val
      IN  /\ equalValue(this, a)
          /\ equalValue(other, b)
          /\ (ExactQuotient(ret.val, this, other) /\ ExactQuotient(q, a, b)) =>
               equalValue(ret.val, q)
          /\ CmpValue(Distance(ret.val, q),
                      CoarserUnit(this, other, a, b)) < 0

\* a quotient that does not terminate, and a representation of the same
\* dividend that yields more of its digits
C24_Witness ==
  /\ op = "divide"
  /\ signum(other) # 0
  /\ ~ExactQuotient(ret.val, this, other)
  /\ \E r \in Rescalings :
       /\ r[2] = 0
       /\ equalValue(this, Rescaled(this, r[1]))
       /\ ~equalValue(ret.val, divide(Rescaled(this, r[1]), other).val)

(***************************************************************************)
(* C25.  The normalized form is closed under the public operations.        *)
(***************************************************************************)
\* C25: starting from the constants and the results of valueOf, every value
\* a chain of calls returns satisfies the normalization invariant, so that
\* equals agrees with equalValue on the results
C25_NormalizedClosed ==
  /\ IsNormalized(held)
  /\ (op # "idle" /\ Returned) =>
       /\ IsNormalized(ret.val)
       /\ equals(ret.val, held) <=> equalValue(ret.val, held)

=============================================================================
